---------------------------- MODULE Spec2Model ----------------------------
(***************************************************************************)
(* MovieSaver: a menu-driven catalog of MovieInfo records, loaded from     *)
(* MovieData/movies.json at startup and written back on "Save & Exit".     *)
(*                                                                         *)
(* Text is modelled as a sequence of one-character strings, so that trim,  *)
(* parse, format, JSON escaping and unescaping are computed and not        *)
(* assumed.  An f64 is [cls, cents]: cls "finite" with the value in        *)
(* hundredths, cls "inf" with cents the sign, or cls "nan".  The decimal   *)
(* literals of the model carry at most two fractional digits and no        *)
(* exponent.                                                               *)
(***************************************************************************)
EXTENDS Integers, Sequences, FiniteSets, TLC

(***************************************************************************)
(* Bounds of the model.                                                    *)
(***************************************************************************)
MaxMovies == 3

(***************************************************************************)
(* Characters and text.                                                    *)
(***************************************************************************)
Digits == <<"0", "1", "2", "3", "4", "5", "6", "7", "8", "9">>

IsDigit(c) == \E i \in 1..10 : Digits[i] = c

DigitVal(c) == (CHOOSE i \in 1..10 : Digits[i] = c) - 1

IsWhitespace(c) == c \in {" ", "\n", "\t", "\r"}

RECURSIVE TrimStart(_)
TrimStart(s) ==
    IF s # <<>> /\ IsWhitespace(Head(s)) THEN TrimStart(Tail(s)) ELSE s

RECURSIVE TrimEnd(_)
TrimEnd(s) ==
    IF s # <<>> /\ IsWhitespace(s[Len(s)])
    THEN TrimEnd(SubSeq(s, 1, Len(s) - 1))
    ELSE s

\* str::trim: leading and trailing whitespace removed.
Trim(s) == TrimEnd(TrimStart(s))

AllDigits(s) == \A i \in 1..Len(s) : IsDigit(s[i])

\* Result<T, E> of a parse: ok with the value, or an error.
Ok(v) == [ok |-> TRUE, val |-> v]

Err == [ok |-> FALSE, val |-> 0]

unwrap_or(r, d) == IF r.ok THEN r.val ELSE d

(***************************************************************************)
(* Integer parsing and formatting (core::num, as used at utils.rs:62 and   *)
(* utils.rs:160).                                                          *)
(***************************************************************************)
I32Max == 2147483647

I32Min == (-2147483647) - 1

\* Checked accumulation of the digits of a non-negative i32.
RECURSIVE AccPos(_, _)
AccPos(s, acc) ==
    IF s = <<>> THEN Ok(acc)
    ELSE LET d == DigitVal(Head(s)) IN
         IF acc > (I32Max - d) \div 10 THEN Err
         ELSE AccPos(Tail(s), acc * 10 + d)

\* Checked accumulation of the digits of a negative i32 (acc <= 0).
RECURSIVE AccNeg(_, _)
AccNeg(s, acc) ==
    IF s = <<>> THEN Ok(acc)
    ELSE LET d == DigitVal(Head(s)) IN
         IF acc < -214748364 \/ (acc = -214748364 /\ d > 8) THEN Err
         ELSE AccNeg(Tail(s), acc * 10 - d)

\* <i32 as FromStr>::from_str: optional sign, then one or more digits.
parse_i32(s) ==
    IF s = <<>> THEN Err
    ELSE LET signed == Head(s) \in {"+", "-"}
             body   == IF signed THEN Tail(s) ELSE s
         IN  IF body = <<>> \/ ~AllDigits(body) THEN Err
             ELSE IF Head(s) = "-" THEN AccNeg(body, 0) ELSE AccPos(body, 0)

\* A parse of an index that also takes a "-" for a sign and drops it.
parse_usize_signed(s) ==
    IF s = <<>> THEN Err
    ELSE LET body == IF Head(s) \in {"+", "-"} THEN Tail(s) ELSE s
         IN  IF body = <<>> \/ ~AllDigits(body) THEN Err
             ELSE AccPos(body, 0)

\* <usize as FromStr>::from_str: an optional "+", never a "-", then digits.
\* The lines of the model are far shorter than usize::MAX.
parse_usize(s) ==
    IF s = <<>> THEN Err
    ELSE LET body == IF Head(s) = "+" THEN Tail(s) ELSE s
         IN  IF body = <<>> \/ ~AllDigits(body) THEN Err
             ELSE AccPos(body, 0)

RECURSIVE FormatNat(_)
FormatNat(n) ==
    IF n < 10 THEN <<Digits[n + 1]>>
    ELSE FormatNat(n \div 10) \o <<Digits[(n % 10) + 1]>>

\* Display of an i32 ("{}").
FormatI32(n) == IF n < 0 THEN <<"-">> \o FormatNat(-n) ELSE FormatNat(n)

(***************************************************************************)
(* f64 parsing and formatting.                                             *)
(***************************************************************************)
Finite(c) == [cls |-> "finite", cents |-> c]

Infinity(sign) == [cls |-> "inf", cents |-> sign]

NaN == [cls |-> "nan", cents |-> 0]

Lower(c) ==
    CASE c = "I" -> "i" [] c = "N" -> "n" [] c = "F" -> "f" [] c = "A" -> "a"
      [] OTHER -> c

LowerAll(s) == [i \in 1..Len(s) |-> Lower(s[i])]

\* The index of the first "." of s, or 0.
DotAt(s) ==
    IF \E i \in 1..Len(s) : s[i] = "."
    THEN CHOOSE i \in 1..Len(s) : s[i] = "." /\ \A j \in 1..(i - 1) : s[j] # "."
    ELSE 0

\* The value in hundredths of the decimal literal ip "." fp.
DecimalCents(ip, fp) ==
    LET whole == IF ip = <<>> THEN 0 ELSE AccPos(ip, 0).val
        frac  == IF fp = <<>> THEN 0
                 ELSE IF Len(fp) = 1 THEN 10 * DigitVal(fp[1])
                 ELSE 10 * DigitVal(fp[1]) + DigitVal(fp[2])
    IN  whole * 100 + frac

\* <f64 as FromStr>::from_str (core::num::dec2flt): optional sign, then
\* "inf", "infinity" or "nan" in any case, or digits with an optional "."
\* and at least one digit on either side of it.
parse_f64(s) ==
    IF s = <<>> THEN Err
    ELSE LET signed == Head(s) \in {"+", "-"}
             sign   == IF Head(s) = "-" THEN -1 ELSE 1
             body   == IF signed THEN Tail(s) ELSE s
             low    == LowerAll(body)
             dot    == DotAt(body)
             ip     == IF dot = 0 THEN body ELSE SubSeq(body, 1, dot - 1)
             fp     == IF dot = 0 THEN <<>> ELSE SubSeq(body, dot + 1, Len(body))
         IN  IF low \in {<<"i", "n", "f">>,
                         <<"i", "n", "f", "i", "n", "i", "t", "y">>}
               THEN Ok(Infinity(sign))
             ELSE IF low = <<"n", "a", "n">> THEN Ok(NaN)
             ELSE IF body = <<>> \/ ~AllDigits(ip) \/ ~AllDigits(fp)
                     \/ (ip = <<>> /\ fp = <<>>)
               THEN Err
             ELSE Ok(Finite(sign * DecimalCents(ip, fp)))

Abs(n) == IF n < 0 THEN -n ELSE n

TwoDigits(n) == <<Digits[(n \div 10) + 1], Digits[(n % 10) + 1]>>

\* Display of an f64 with "{:.2}" (utils.rs:45).
FormatFixed2(p) ==
    IF p.cls = "nan" THEN <<"N", "a", "N">>
    ELSE IF p.cls = "inf"
      THEN (IF p.cents < 0 THEN <<"-">> ELSE <<>>) \o <<"i", "n", "f">>
    ELSE (IF p.cents < 0 THEN <<"-">> ELSE <<>>)
         \o FormatNat(Abs(p.cents) \div 100) \o <<".">>
         \o TwoDigits(Abs(p.cents) % 100)

(***************************************************************************)
(* The JSON document of serde_json.  A document is "garbage" (text that is *)
(* no JSON array of objects, the empty file included) or "json": the       *)
(* sequence of its objects, each the sequence of its <<key, value>>        *)
(* members in file order.  A value is a string token (the escaped text     *)
(* between the quotes), a number token (its characters) or null.  The      *)
(* whitespace of the pretty printer is skipped by the parser and is not    *)
(* part of the model.                                                      *)
(***************************************************************************)
JStr(s) == [t |-> "str", s |-> s]

JNum(s) == [t |-> "num", s |-> s]

JNull == [t |-> "null", s |-> <<>>]

Garbage == [kind |-> "garbage", items |-> <<>>]

Json(items) == [kind |-> "json", items |-> items]

\* serde_json's format_escaped_str for the characters of the model.
RECURSIVE Escape(_)
Escape(s) ==
    IF s = <<>> THEN <<>>
    ELSE (IF Head(s) \in {"\"", "\\"} THEN <<"\\", Head(s)>> ELSE <<Head(s)>>)
         \o Escape(Tail(s))

\* serde_json's parse_str: a backslash takes the next character, which
\* must be one JSON allows there.
RECURSIVE Unescape(_)
Unescape(s) ==
    IF s = <<>> THEN Ok(<<>>)
    ELSE IF Head(s) = "\\"
      THEN IF Len(s) < 2 \/ s[2] \notin {"\"", "\\"} THEN Err
           ELSE LET rest == Unescape(SubSeq(s, 3, Len(s)))
                IN  IF rest.ok THEN Ok(<<s[2]>> \o rest.val) ELSE Err
    ELSE LET rest == Unescape(Tail(s))
         IN  IF rest.ok THEN Ok(<<Head(s)>> \o rest.val) ELSE Err

\* The fraction digits ryu prints for n hundredths: no trailing zero, but
\* at least one digit.
ShortestFrac(n) ==
    IF n % 10 = 0 THEN <<Digits[(n \div 10) + 1]>> ELSE TwoDigits(n)

\* serde_json's serialize_f64: null for NaN and the infinities, ryu's
\* shortest decimal otherwise.
serialize_f64(p) ==
    IF p.cls # "finite" THEN JNull
    ELSE JNum((IF p.cents < 0 THEN <<"-">> ELSE <<>>)
              \o FormatNat(Abs(p.cents) \div 100) \o <<".">>
              \o ShortestFrac(Abs(p.cents) % 100))

serialize_i32(n) == JNum(FormatI32(n))

\* A JSON integer part: digits, with no leading zero before another digit.
JsonInt(s) == s # <<>> /\ AllDigits(s) /\ (Len(s) > 1 => Head(s) # "0")

\* Deserialize<i32>: an integer number token within i32; a string, a null
\* or a number with a fraction is an invalid type.
deserialize_i32(v) ==
    IF v.t # "num" \/ v.s = <<>> THEN Err
    ELSE LET neg  == Head(v.s) = "-"
             body == IF neg THEN Tail(v.s) ELSE v.s
         IN  IF ~JsonInt(body) \/ (neg /\ body = <<"0">>) THEN Err
             ELSE IF neg THEN AccNeg(body, 0) ELSE AccPos(body, 0)

\* Deserialize<f64>: any number token; a string or a null is an invalid
\* type.
deserialize_f64(v) ==
    IF v.t # "num" \/ v.s = <<>> THEN Err
    ELSE LET neg  == Head(v.s) = "-"
             body == IF neg THEN Tail(v.s) ELSE v.s
             dot  == DotAt(body)
             ip   == IF dot = 0 THEN body ELSE SubSeq(body, 1, dot - 1)
             fp   == IF dot = 0 THEN <<>> ELSE SubSeq(body, dot + 1, Len(body))
         IN  IF ~JsonInt(ip) \/ (dot # 0 /\ fp = <<>>) \/ ~AllDigits(fp) THEN Err
             ELSE Ok(Finite((IF neg THEN -1 ELSE 1) * DecimalCents(ip, fp)))

deserialize_String(v) == IF v.t # "str" THEN Err ELSE Unescape(v.s)

(***************************************************************************)
(* MovieInfo and the operations of utils.rs.  A line of output is the      *)
(* format string of its println!/eprintln! with the formatted arguments.   *)
(***************************************************************************)
MovieInfo(ts, title, year, price) ==
    [timestamp |-> ts, title |-> title, year |-> year, price |-> price]

Line(fmt, args) == [fmt |-> fmt, args |-> args]

\* The path of the persisted file (utils.rs:175).
filename == "MovieData/movies.json"

\* The io::Error an eprintln! formats; its text is not modelled.
IoError == <<"e">>

\* chrono's "%Y-%m-%d %H:%M:%S" of the UTC instant shifted to UTC+2.  The
\* instant is day `utc.day` of January 2025, hour `utc.hour`, on the hour.
get_current_timestamp(utc) ==
    LET h == utc.hour + 2
        d == utc.day + (h \div 24)
    IN  <<"2", "0", "2", "5", "-", "0", "1", "-">> \o TwoDigits(d) \o <<" ">>
        \o TwoDigits(h % 24) \o <<":", "0", "0", ":", "0", "0">>

display_movie(movie) ==
    << Line("Title: {}", <<movie.title>>),
       Line("Year: {}", <<FormatI32(movie.year)>>),
       Line("Price: ${:.2}", <<FormatFixed2(movie.price)>>),
       Line("Last Updated: {}", <<movie.timestamp>>) >>

\* An input_movie that marks a year or price that does not parse with -1.
input_movie_sentinel(titleLine, yearLine, priceLine, utc) ==
    [ movie  |-> MovieInfo(get_current_timestamp(utc),
                           Trim(titleLine),
                           unwrap_or(parse_i32(Trim(yearLine)), -1),
                           unwrap_or(parse_f64(Trim(priceLine)), Finite(-100))),
      stdout |-> << Line("Enter movie title: ", <<>>),
                    Line("Enter release year: ", <<>>),
                    Line("Enter current price: $", <<>>) >> ]

\* The three lines read from stdin become a MovieInfo stamped with `utc`.
input_movie(titleLine, yearLine, priceLine, utc) ==
    [ movie  |-> MovieInfo(get_current_timestamp(utc),
                           Trim(titleLine),
                           unwrap_or(parse_i32(Trim(yearLine)), 0),
                           unwrap_or(parse_f64(Trim(priceLine)), Finite(0))),
      stdout |-> << Line("Enter movie title: ", <<>>),
                    Line("Enter release year: ", <<>>),
                    Line("Enter current price: $", <<>>) >> ]

\* serde's derived Serialize of MovieInfo: the members in field order.
serialize_MovieInfo(m) ==
    << <<"timestamp", JStr(Escape(m.timestamp))>>,
       <<"title", JStr(Escape(m.title))>>,
       <<"year", serialize_i32(m.year)>>,
       <<"price", serialize_f64(m.price)>> >>

\* serde_json::to_string_pretty(movies); it has no error for this type.
to_string_pretty(movies) ==
    Json([i \in 1..Len(movies) |-> serialize_MovieInfo(movies[i])])

\* serde's derived Deserialize of MovieInfo: every field exactly once with
\* a value of its type; members of other names are ignored.
deserialize_MovieInfo(obj) ==
    LET Count(key) == Cardinality({i \in 1..Len(obj) : obj[i][1] = key})
        Value(key) == obj[CHOOSE i \in 1..Len(obj) : obj[i][1] = key][2]
        fields     == {"timestamp", "title", "year", "price"}
    IN  IF \E k \in fields : Count(k) # 1 THEN Err
        ELSE LET ts    == deserialize_String(Value("timestamp"))
                 title == deserialize_String(Value("title"))
                 year  == deserialize_i32(Value("year"))
                 price == deserialize_f64(Value("price"))
             IN  IF ts.ok /\ title.ok /\ year.ok /\ price.ok
                 THEN Ok(MovieInfo(ts.val, title.val, year.val, price.val))
                 ELSE Err

\* serde_json::from_str::<Vec<MovieInfo>>(&data).
from_str(doc) ==
    IF doc.kind # "json" THEN Err
    ELSE LET parsed == [i \in 1..Len(doc.items) |->
                           deserialize_MovieInfo(doc.items[i])]
         IN  IF \A i \in 1..Len(parsed) : parsed[i].ok
             THEN Ok([i \in 1..Len(parsed) |-> parsed[i].val])
             ELSE Err

(***************************************************************************)
(* The file system: MovieData exists or not (dir), and the file is         *)
(* "absent", "unreadable" (it exists and read_to_string fails: no          *)
(* permission, or not UTF-8) or "file" with its document.                  *)
(***************************************************************************)
Absent == [state |-> "absent", doc |-> Garbage]

Unreadable == [state |-> "unreadable", doc |-> Garbage]

File(doc) == [state |-> "file", doc |-> doc]

\* ensure_movie_directory_exists: mkdirOk is whether fs::create_dir succeeds.
ensure_movie_directory_exists(dirExists, mkdirOk) ==
    IF ~dirExists
    THEN IF ~mkdirOk
         THEN [dir |-> FALSE,
               stderr |-> <<Line("Error creating directory: {}", <<IoError>>)>>]
         ELSE [dir |-> TRUE, stderr |-> <<>>]
    ELSE [dir |-> TRUE, stderr |-> <<>>]

\* fs::write(path, data) is File::create then write_all: "ok" replaces the
\* content, "create_failed" leaves the file as it was, "write_failed"
\* leaves the truncated file.
fs_write(file, data, outcome) ==
    CASE outcome = "ok" -> File(data)
      [] outcome = "create_failed" -> file
      [] OTHER -> File(Garbage)

save_movies(movies, dirExists, file, mkdirOk, outcome) ==
    LET ensured   == ensure_movie_directory_exists(dirExists, mkdirOk)
        json_data == to_string_pretty(movies)
    IN  [ dir    |-> ensured.dir,
          disk   |-> fs_write(file, json_data, outcome),
          stdout |-> IF outcome = "ok"
                     THEN <<Line("Movies saved successfully to {}", <<filename>>)>>
                     ELSE <<>>,
          stderr |-> ensured.stderr \o
                     (IF outcome = "ok" THEN <<>>
                      ELSE <<Line("Failed to save movies to {}: {}",
                                  <<filename, IoError>>)>>) ]

\* A load that gives the empty catalog for a bad file without a warning.
load_movies_silent(file) ==
    IF file.state # "file" THEN [movies |-> <<>>, stderr |-> <<>>]
    ELSE LET parsed == from_str(file.doc)
         IN  [movies |-> IF parsed.ok THEN parsed.val ELSE <<>>, stderr |-> <<>>]

load_movies(file) ==
    IF file.state = "absent" THEN [movies |-> <<>>, stderr |-> <<>>]
    ELSE IF file.state = "unreadable"
      THEN [movies |-> <<>>,
            stderr |-> <<Line("Warning: Could not read file {}: {}",
                              <<filename, IoError>>)>>]
    ELSE LET parsed == from_str(file.doc)
         IN  IF parsed.ok THEN [movies |-> parsed.val, stderr |-> <<>>]
             ELSE [movies |-> <<>>,
                   stderr |-> <<Line("Warning: Failed to parse JSON data from {}: {}",
                                     <<filename, IoError>>)>>]

\* A listing that puts each record before the ones listed so far.
display_all_movies_reversed(movies) ==
    IF movies = <<>> THEN <<Line("No movies in database.", <<>>)>>
    ELSE LET Entry(i) == display_movie(movies[i])
                         \o <<Line("---------------------", <<>>)>>
             block[i \in 0..Len(movies)] ==
                 IF i = 0 THEN <<>> ELSE Entry(i) \o block[i - 1]
         IN  <<Line("\n=== Movie Database ===", <<>>)>> \o block[Len(movies)]

display_all_movies(movies) ==
    IF movies = <<>> THEN <<Line("No movies in database.", <<>>)>>
    ELSE LET Entry(i) == display_movie(movies[i])
                         \o <<Line("---------------------", <<>>)>>
             block[i \in 0..Len(movies)] ==
                 IF i = 0 THEN <<>> ELSE block[i - 1] \o Entry(i)
         IN  <<Line("\n=== Movie Database ===", <<>>)>> \o block[Len(movies)]

\* Remove with the 1-based number taken for the 0-based index.
RemoveShifted(v, idx) == SubSeq(v, 1, idx + 1) \o SubSeq(v, idx + 3, Len(v))

\* Vec::remove(idx), idx counted from 0.
Remove(v, idx) == SubSeq(v, 1, idx) \o SubSeq(v, idx + 2, Len(v))

\* delete_movie: on an empty catalog no line is read (`read` is FALSE).
delete_movie(movies, line) ==
    IF movies = <<>>
    THEN [movies |-> movies, read |-> FALSE,
          stdout |-> <<Line("No movies to delete.", <<>>)>>]
    ELSE LET listing == <<Line("\n=== Delete a Movie ===", <<>>)>> \o
                        [i \in 1..Len(movies) |->
                            Line("{}. {} ({})", <<FormatNat(i), movies[i].title,
                                                  FormatI32(movies[i].year)>>)]
                        \o <<Line("Enter the number of the movie to delete: ", <<>>)>>
             num     == parse_usize(Trim(line))
         IN  IF num.ok /\ num.val > 0 /\ num.val <= Len(movies)
             THEN LET idx     == num.val - 1
                      removed == movies[idx + 1]
                  IN  [movies |-> Remove(movies, idx), read |-> TRUE,
                       stdout |-> listing \o
                                  <<Line("Deleted \"{}\" ({})",
                                         <<removed.title, FormatI32(removed.year)>>)>>]
             ELSE [movies |-> movies, read |-> TRUE,
                   stdout |-> listing \o <<Line("Invalid selection.", <<>>)>>]

(***************************************************************************)
(* The process: main (main.rs) runs run_movie_db under catch_unwind.       *)
(***************************************************************************)
VARIABLES
    movies,     \* run_movie_db's `movies`
    disk,       \* the file MovieData/movies.json
    dir,        \* whether the directory MovieData exists
    session,    \* "Startup", "Running", "Terminated" (the loop broke) or "Panicked"
    result,     \* what catch_unwind returned to main, once it has
    exited,     \* whether the process has ended
    exit_code,  \* the status it ended with
    stdout,     \* the lines the last step printed
    stderr,     \* the lines the last step wrote to the error stream
    op,         \* the last step taken
    choice,     \* the menu line the last iteration read
    inputs,     \* the lines it read after the menu line
    prev,       \* `movies` before the last step
    loaded      \* the catalog load_movies returned at startup

vars == <<movies, disk, dir, session, result, exited, exit_code, stdout, stderr,
          op, choice, inputs, prev, loaded>>

Nl(s) == s \o <<"\n">>

\* The lines an operator may type at the menu.  <<>> is end of input:
\* read_line returns Ok(0) and leaves the buffer empty.
ChoiceLines ==
    { Nl(<<"1">>), Nl(<<"2">>), Nl(<<"3">>), Nl(<<"4">>), Nl(<<" ", "2", " ">>),
      Nl(<<"5">>), <<>> }

\* What an operator may type into input_movie's three prompts, and the
\* instant at which the record is stamped: a plain entry; a title of
\* quote and backslash inside blanks, a year that is no number and an
\* infinite price; and a year beyond i32 with a price that is no number.
Entries ==
    { [title |-> Nl(<<"A">>), year |-> Nl(<<"2", "0", "1", "0">>),
       price |-> Nl(<<"9", ".", "9", "9">>), utc |-> [day |-> 1, hour |-> 10]],
      [title |-> Nl(<<" ", "\"", "\\", " ">>), year |-> Nl(<<"x">>),
       price |-> Nl(<<"i", "n", "f">>), utc |-> [day |-> 1, hour |-> 23]],
      [title |-> Nl(<<"A">>),
       year |-> Nl(<<"9", "9", "9", "9", "9", "9", "9", "9", "9", "9">>),
       price |-> Nl(<<"$", "5">>), utc |-> [day |-> 1, hour |-> 23]] }

DeleteLines ==
    { Nl(FormatNat(i)) : i \in 0..(MaxMovies + 1) }
      \cup { Nl(<<"-", "1">>), Nl(<<"+", "1">>), Nl(<<"x">>), <<>> }

\* A record an earlier session stored.
Stored(priceLine) ==
    input_movie(Nl(<<"A">>), Nl(<<"2", "0", "1", "0">>), priceLine,
                [day |-> 1, hour |-> 10]).movie

\* The files a session may find: none, an unreadable one, text that is no
\* JSON, what save_movies wrote for a catalog, and documents edited by hand
\* (a member missing, a member of another name).
InitialFiles ==
    { Absent, Unreadable, File(Garbage),
      File(to_string_pretty(<<>>)),
      File(to_string_pretty(<<Stored(Nl(<<"9", ".", "9", "9">>))>>)),
      File(to_string_pretty(<<Stored(Nl(<<"i", "n", "f">>))>>)),
      File(Json(<< SubSeq(serialize_MovieInfo(Stored(Nl(<<"$", "5">>))), 1, 3) >>)),
      File(Json(<< serialize_MovieInfo(Stored(Nl(<<"$", "5">>)))
                   \o << <<"rating", JNum(<<"5">>)>> >> >>)) }

NoResult == [tag |-> "None", code |-> 0]

OkOk(code) == [tag |-> "OkOk", code |-> code]

OkErr == [tag |-> "OkErr", code |-> 0]

Panic == [tag |-> "Panic", code |-> 0]

Init ==
    /\ movies = <<>>
    /\ dir \in BOOLEAN
    /\ disk \in InitialFiles
    /\ (~dir => disk = Absent)
    /\ session = "Startup"
    /\ result = NoResult
    /\ exited = FALSE
    /\ exit_code = 0
    /\ stdout = <<>>
    /\ stderr = <<>>
    /\ op = "none"
    /\ choice = <<>>
    /\ inputs = <<>>
    /\ prev = <<>>
    /\ loaded = <<>>

Menu ==
    << Line("\nMovie Database Menu:", <<>>),
       Line("1. Add new movie", <<>>),
       Line("2. View all movies", <<>>),
       Line("3. Delete a movie", <<>>),
       Line("4. Save & Exit", <<>>),
       Line("Choice: ", <<>>) >>

\* A match whose catch-all arm saves and exits.
DispatchExitOnUnknown(c) ==
    CASE c = <<"1">> -> "add"
      [] c = <<"2">> -> "view"
      [] c = <<"3">> -> "delete"
      [] OTHER -> "save"

\* The arm of `match choice` (utils.rs:193) that the trimmed line selects.
Dispatch(c) ==
    CASE c = <<"1">> -> "add"
      [] c = <<"2">> -> "view"
      [] c = <<"3">> -> "delete"
      [] c = <<"4">> -> "save"
      [] OTHER -> "invalid"

\* main prints its header and run_movie_db loads the catalog.
Start ==
    /\ session = "Startup"
    /\ LET got == load_movies(disk)
       IN  /\ movies' = got.movies
           /\ loaded' = got.movies
           /\ stderr' = got.stderr
    /\ stdout' = <<Line("=== Movie Database Management System ===", <<>>)>>
    /\ session' = "Running"
    /\ op' = "start"
    /\ prev' = movies
    /\ UNCHANGED <<disk, dir, result, exited, exit_code, choice, inputs>>

\* Choice "1": input_movie, then movies.push.
AddMovie ==
    /\ session = "Running"
    /\ Len(movies) < MaxMovies
    /\ \E line \in ChoiceLines, e \in Entries :
          /\ Dispatch(Trim(line)) = "add"
          /\ LET entered == input_movie(e.title, e.year, e.price, e.utc)
             IN  /\ movies' = Append(movies, entered.movie)
                 /\ stdout' = Menu \o entered.stdout
          /\ choice' = line
          /\ inputs' = <<e.title, e.year, e.price>>
    /\ stderr' = <<>>
    /\ op' = "add"
    /\ prev' = movies
    /\ UNCHANGED <<disk, dir, session, result, exited, exit_code, loaded>>

\* Choice "2": display_all_movies.
ViewMovies ==
    /\ session = "Running"
    /\ \E line \in ChoiceLines :
          /\ Dispatch(Trim(line)) = "view"
          /\ choice' = line
    /\ stdout' = Menu \o display_all_movies(movies)
    /\ stderr' = <<>>
    /\ inputs' = <<>>
    /\ op' = "view"
    /\ prev' = movies
    /\ UNCHANGED <<movies, disk, dir, session, result, exited, exit_code, loaded>>

\* Choice "3": delete_movie.
DeleteMovie ==
    /\ session = "Running"
    /\ \E line \in ChoiceLines, d \in DeleteLines :
          /\ Dispatch(Trim(line)) = "delete"
          /\ LET deleted == delete_movie(movies, d)
             IN  /\ movies' = deleted.movies
                 /\ stdout' = Menu \o deleted.stdout
                 /\ inputs' = IF deleted.read THEN <<d>> ELSE <<>>
          /\ choice' = line
    /\ stderr' = <<>>
    /\ op' = "delete"
    /\ prev' = movies
    /\ UNCHANGED <<disk, dir, session, result, exited, exit_code, loaded>>

\* Choice "4": save_movies, the farewell, break, and Ok(0).
SaveAndExit ==
    /\ session = "Running"
    /\ \E line \in ChoiceLines, mkdirOk \in BOOLEAN,
          outcome \in {"ok", "create_failed", "write_failed"} :
          /\ Dispatch(Trim(line)) = "save"
          /\ dir => mkdirOk
          /\ LET saved == save_movies(movies, dir, disk, mkdirOk, outcome)
             IN  /\ (~saved.dir => outcome = "create_failed")
                 /\ dir' = saved.dir
                 /\ disk' = saved.disk
                 /\ stdout' = Menu \o saved.stdout
                                \o <<Line("Data saved. Goodbye!", <<>>)>>
                 /\ stderr' = saved.stderr
          /\ choice' = line
    /\ session' = "Terminated"
    /\ result' = OkOk(0)
    /\ inputs' = <<>>
    /\ op' = "save"
    /\ prev' = movies
    /\ UNCHANGED <<movies, exited, exit_code, loaded>>

\* Any other line: the notice, and the loop goes round.
InvalidChoice ==
    /\ session = "Running"
    /\ \E line \in ChoiceLines :
          /\ Dispatch(Trim(line)) = "invalid"
          /\ choice' = line
    /\ stdout' = Menu \o <<Line("Invalid choice. Please try again.", <<>>)>>
    /\ stderr' = <<>>
    /\ inputs' = <<>>
    /\ op' = "invalid"
    /\ prev' = movies
    /\ UNCHANGED <<movies, disk, dir, session, result, exited, exit_code, loaded>>

\* A read_line of the iteration returns Err: its expect panics, the stack
\* unwinds out of run_movie_db and catch_unwind returns Err to main.  The
\* failing read is the menu's (utils.rs:190), one of input_movie's
\* (utils.rs:57, 61, 65) or delete_movie's (utils.rs:159).
StdinFault ==
    /\ session = "Running"
    /\ \E at \in {"choice", "add", "delete"} :
          /\ at = "add" => Len(movies) < MaxMovies
          /\ at = "delete" => movies # <<>>
          /\ choice' = CASE at = "add" -> Nl(<<"1">>)
                         [] at = "delete" -> Nl(<<"3">>)
                         [] OTHER -> <<>>
    /\ session' = "Panicked"
    /\ result' = Panic
    /\ stdout' = Menu
    /\ stderr' = <<Line("thread 'main' panicked", <<>>)>>
    /\ inputs' = <<>>
    /\ op' = "fault"
    /\ prev' = movies
    /\ UNCHANGED <<movies, disk, dir, exited, exit_code, loaded>>

\* A match that lets a panic end the process with status 0.
main_match_swallow(r) ==
    CASE r.tag = "OkOk" /\ r.code # 0 ->
           [code |-> r.code,
            stderr |-> <<Line("Program ended with error code: {}",
                              <<FormatI32(r.code)>>)>>]
      [] r.tag = "OkErr" ->
           [code |-> 1, stderr |-> <<Line("Error: {}", <<IoError>>)>>]
      [] OTHER -> [code |-> 0, stderr |-> <<>>]

\* The `match result` of main (main.rs:18): the status the process ends
\* with and what it writes to the error stream first.
main_match(r) ==
    CASE r.tag = "OkOk" /\ r.code = 0 -> [code |-> 0, stderr |-> <<>>]
      [] r.tag = "OkOk" /\ r.code # 0 ->
           [code |-> r.code,
            stderr |-> <<Line("Program ended with error code: {}",
                              <<FormatI32(r.code)>>)>>]
      [] r.tag = "OkErr" ->
           [code |-> 1, stderr |-> <<Line("Error: {}", <<IoError>>)>>]
      [] OTHER ->
           [code |-> 1,
            stderr |-> <<Line("Error: An unexpected error occurred.", <<>>)>>]

MainExit ==
    /\ session \in {"Terminated", "Panicked"}
    /\ ~exited
    /\ exited' = TRUE
    /\ exit_code' = main_match(result).code
    /\ stderr' = main_match(result).stderr
    /\ stdout' = <<>>
    /\ op' = "exit"
    /\ prev' = movies
    /\ UNCHANGED <<movies, disk, dir, session, result, choice, inputs, loaded>>

Next ==
    \/ Start
    \/ AddMovie
    \/ ViewMovies
    \/ DeleteMovie
    \/ SaveAndExit
    \/ InvalidChoice
    \/ StdinFault
    \/ MainExit

Spec == Init /\ [][Next]_vars

(***************************************************************************)
(* Properties.                                                             *)
(***************************************************************************)
HasLine(stream, fmt) == \E i \in 1..Len(stream) : stream[i].fmt = fmt

\* What the last iteration printed after the menu.
Shown == SubSeq(stdout, Len(Menu) + 1, Len(stdout))

\* The last step was "Save & Exit" and fs::write succeeded.
SaveWrote == op = "save" /\ HasLine(stdout, "Movies saved successfully to {}")

\* C1: loading the file that save_movies wrote for a sequence of records
\* gives back the same records, field by field and in the same order.
C1_RoundTrip ==
    SaveWrote =>
        LET back == load_movies(disk).movies
        IN  /\ Len(back) = Len(movies)
            /\ \A i \in 1..Len(movies) :
                  /\ back[i].timestamp = movies[i].timestamp
                  /\ back[i].title = movies[i].title
                  /\ back[i].year = movies[i].year
                  /\ back[i].price = movies[i].price

\* C2: a session that started from an empty catalog and ended with "Save &
\* Exit" leaves a file that replaces the one before it and that loads as
\* the catalog held in memory at that moment.
C2_SessionPersisted ==
    (session = "Terminated" /\ loaded = <<>> /\ SaveWrote) =>
        /\ disk = File(to_string_pretty(movies))
        /\ load_movies(disk).movies = movies

\* C3: on a catalog of n >= 1 records, delete_movie given the numeral of
\* an index i in 1..n leaves n - 1 records: those before position i where
\* they were, those after it one position down.
C3_DeleteRemovesIndexed ==
    (op = "delete" /\ inputs # <<>>) =>
        \A i \in 1..Len(prev) :
            inputs[1] = Nl(FormatNat(i)) =>
                /\ Len(movies) = Len(prev) - 1
                /\ \A k \in 1..(i - 1) : movies[k] = prev[k]
                /\ \A k \in i..Len(movies) : movies[k] = prev[k + 1]

\* C3's case: the middle one of three records, not all alike, deleted.
C3_Witness ==
    /\ op = "delete"
    /\ Len(prev) = 3
    /\ inputs = <<Nl(<<"2">>)>>
    /\ Len(movies) = 2
    /\ prev[1] # prev[2]
    /\ prev[2] # prev[3]

\* The lines that name no record of a catalog of n records: the numeral 0,
\* a negative number, text that is no number, end of input, and the
\* numerals beyond n.
InvalidSelections(n) ==
    { Nl(<<"0">>), Nl(<<"-", "1">>), Nl(<<"x">>), <<>> }
      \cup { Nl(FormatNat(i)) : i \in (n + 1)..(MaxMovies + 1) }

\* C4, as claimed: on every catalog, the empty one included, a deletion
\* with index 0, a negative index, text that is no number or an index
\* beyond the length leaves the catalog as it was and prints "Invalid
\* selection.".  On the empty catalog every index is beyond the length.
C4_AsClaimed ==
    (op = "delete" /\ (prev = <<>> \/ inputs \in {<<l>> : l \in InvalidSelections(Len(prev))})) =>
        /\ movies = prev
        /\ HasLine(Shown, "Invalid selection.")

\* C4, amended: on a catalog that is not empty such a line leaves the
\* catalog as it was and prints "Invalid selection."; on the empty catalog
\* delete_movie reads no line, leaves the catalog empty and prints "No
\* movies to delete." and no other notice.
C4_InvalidSelectionRejected ==
    op = "delete" =>
        /\ prev = <<>> =>
              /\ movies = <<>>
              /\ inputs = <<>>
              /\ Shown = <<Line("No movies to delete.", <<>>)>>
        /\ (prev # <<>> /\ inputs \in {<<l>> : l \in InvalidSelections(Len(prev))}) =>
              /\ movies = prev
              /\ Shown[Len(Shown)] = Line("Invalid selection.", <<>>)
              /\ ~HasLine(Shown, "Deleted \"{}\" ({})")

\* C4's case: an index one beyond the length of a catalog of two records.
C4_Witness ==
    /\ op = "delete"
    /\ Len(prev) = 2
    /\ inputs = <<Nl(<<"3">>)>>
    /\ movies = prev

Malformed(doc) ==
    \/ doc.kind = "garbage"
    \/ \E i \in 1..Len(doc.items) :
          \E f \in {"timestamp", "title", "year", "price"} :
              \/ \A m \in 1..Len(doc.items[i]) : doc.items[i][m][1] # f
              \/ \E m \in 1..Len(doc.items[i]) :
                    doc.items[i][m] = <<f, JNull>>

\* C6: startup always reaches the menu loop; with no file the catalog is
\* empty and nothing is written to the error stream; with a file that
\* cannot be read or does not deserialize the catalog is empty and one
\* warning is written.
C6_LoadNeverFails ==
    op = "start" =>
        /\ session = "Running"
        /\ ~exited
        /\ result = NoResult
        /\ disk.state = "absent" => (movies = <<>> /\ stderr = <<>>)
        /\ disk.state = "unreadable" =>
              /\ movies = <<>>
              /\ stderr = <<Line("Warning: Could not read file {}: {}",
                                 <<filename, IoError>>)>>
        /\ (disk.state = "file" /\ Malformed(disk.doc)) =>
              /\ movies = <<>>
              /\ stderr = <<Line("Warning: Failed to parse JSON data from {}: {}",
                                 <<filename, IoError>>)>>

\* C6's case: a file of JSON with a null price, as an earlier session with
\* an infinite price left it, is loaded as the empty catalog with a warning.
C6_Witness ==
    /\ op = "start"
    /\ session = "Running"
    /\ disk.state = "file"
    /\ disk.doc.kind = "json"
    /\ Len(disk.doc.items) = 1
    /\ movies = <<>>
    /\ stderr # <<>>

\* C7: when the directory cannot be created or the file cannot be written,
\* the failure is written to the error stream, nothing tells the operator
\* that the data was saved, and the process goes on to its normal end.
C7_FailureNotReportedAsSuccess ==
    (op = "save" /\ ~HasLine(stdout, "Movies saved successfully to {}")) =>
        /\ HasLine(stderr, "Failed to save movies to {}: {}")
        /\ ~HasLine(stdout, "Data saved. Goodbye!")
        /\ session = "Terminated"
        /\ result = OkOk(0)

\* C8: the menu loop is Running until it is Terminated.  Choices 1, 2 and
\* 3 leave it Running, choice 4 alone terminates it, any other line leaves
\* the session and the catalog as they were and prints the notice before
\* the menu is shown again, and a terminated session takes no choice.  A
\* failed read of stdin is the separate fault path of C9.
C8_MenuStateMachine ==
    /\ session \in {"Startup", "Running", "Terminated", "Panicked"}
    /\ op \in {"add", "view", "delete"} =>
          /\ session = "Running"
          /\ Trim(choice) = <<CASE op = "add" -> "1" [] op = "view" -> "2"
                                [] OTHER -> "3">>
    /\ op = "invalid" =>
          /\ session = "Running"
          /\ movies = prev
          /\ Trim(choice) \notin {<<"1">>, <<"2">>, <<"3">>, <<"4">>}
          /\ stdout = Menu \o <<Line("Invalid choice. Please try again.", <<>>)>>
    /\ op = "save" => session = "Terminated"
    /\ session = "Terminated" =>
          /\ op \in {"save", "exit"}
          /\ Trim(choice) = <<"4">>
          /\ movies = prev
    /\ op \in {"add", "view", "delete", "invalid", "save"} =>
          SubSeq(stdout, 1, Len(Menu)) = Menu

\* C8's case: a line that is no choice, typed while the catalog holds a
\* record.
C8_Witness ==
    /\ op = "invalid"
    /\ choice = Nl(<<"5">>)
    /\ movies # <<>>
    /\ session = "Running"

\* The results main's match distinguishes.
Results == {OkOk(c) : c \in -1..2} \cup {OkErr, Panic}

\* C9: the process ends with status 0 exactly when the session ended by
\* "Save & Exit", and with another status, after a line on the error
\* stream, when run_movie_db panicked, returned an error or returned a code
\* other than 0; it ends in no other way.
C9_ExitCodeContract ==
    /\ exited =>
          /\ session \in {"Terminated", "Panicked"}
          /\ exit_code = 0 <=> (session = "Terminated" /\ result = OkOk(0))
          /\ exit_code # 0 => stderr # <<>>
          /\ session = "Panicked" => exit_code # 0
    /\ \A r \in Results :
          /\ main_match(r).code = 0 <=> r = OkOk(0)
          /\ main_match(r).code # 0 => main_match(r).stderr # <<>>

\* C9's case: the process has ended after a panic.
C9_Witness ==
    /\ exited
    /\ session = "Panicked"
    /\ exit_code = 1
    /\ stderr = <<Line("Error: An unexpected error occurred.", <<>>)>>

\* C10: an add puts exactly one record after the ones already there and
\* leaves those as they were; the record carries the trimmed title, also
\* when a record of that title is there already; a year or a price that
\* does not parse becomes 0 or 0.0.
C10_AddAppends ==
    op = "add" =>
        /\ session = "Running"
        /\ Len(inputs) = 3
        /\ Len(movies) = Len(prev) + 1
        /\ SubSeq(movies, 1, Len(prev)) = prev
        /\ movies[Len(movies)].title = Trim(inputs[1])
        /\ inputs[2] = Nl(<<"2", "0", "1", "0">>) => movies[Len(movies)].year = 2010
        /\ inputs[2] \in {Nl(<<"x">>),
                          Nl(<<"9", "9", "9", "9", "9", "9", "9", "9", "9", "9">>)} =>
              movies[Len(movies)].year = 0
        /\ inputs[3] = Nl(<<"9", ".", "9", "9">>) =>
              movies[Len(movies)].price = Finite(999)
        /\ inputs[3] = Nl(<<"$", "5">>) => movies[Len(movies)].price = Finite(0)

\* C10's case: a second record of the same title, its year not a number.
C10_Witness ==
    /\ op = "add"
    /\ Len(movies) = 2
    /\ movies[2].title = movies[1].title
    /\ inputs[2] = Nl(<<"x">>)
    /\ movies[2].year = 0

=============================================================================
